---- MODULE Spec2Model ----
(***************************************************************************)
(* Bond inference of vermouth (processors/make_bonds.py).                  *)
(*                                                                         *)
(* Lengths are integers in units of 0.001 nm.  A fudge factor is a pair    *)
(* <<numerator, denominator>>; every comparison of the source is done in   *)
(* exact arithmetic after clearing the denominators.  Atoms lie on one     *)
(* axis: a position is the 1-tuple <<x>>, an absent position is <<>>.      *)
(* A Python None is <<>>, a value v that may be None is <<v>>.             *)
(***************************************************************************)
EXTENDS Integers, Sequences, FiniteSets, TLC

\* Number of atoms of the system read by the structure reader.
NAtoms == 3

\* Number of workers of the pool on the parallel path.
NWorkers == 2

Atoms == 1..NAtoms

VARIABLES
    atom,           \* atom -> [chain, resid, resname, atomname, element, position]
    mol_idx,        \* the 'mol_idx' node attribute: <<>> (unset) or <<i>>
    molecules,      \* system.molecules: sequence of molecules, each a sequence of atoms
    edges,          \* the edges of all the molecules, as 2-element sets of atoms
    proc,           \* the MakeBonds instance: [allow_name, allow_dist, fudge, nproc]
    last,           \* the last call: [op, path, target, repeat]; repeat: the call
                    \* before it was the same call
    pre_edges,      \* edges when the last call started
    pre_molecules,  \* system.molecules when the last call started
    err,            \* the exception the last call raised, or "none"
    known,          \* the caller's set of known non-edges (make_bonds line 250)
    matched,        \* residues (sets of atoms) whose name matching succeeded
    collected,      \* the dict the last _collect_residues returned
    tasks,          \* pool: indices of the molecules not yet handed out
    worker,         \* pool: worker -> index of the molecule it holds, 0 when idle
    results,        \* pool: [index, molecule, edges, err] of the finished
                    \* run_molecule calls, in the order they finished
    handed,         \* pool: molecule index -> number of times handed to a worker
    molecule,       \* the molecule GoVirtIncludes works on: [nodes, edges,
                    \* interactions, meta, heap]; heap holds the position arrays
    sections,       \* GoVirtIncludes.sections
    golast,         \* the last GoVirtIncludes step: [op, err, pre,
                    \* backbone, calls, passes, lines0, moves]
    force_fields,   \* the dictionaries and ForceField instances alive: [dicts, instances]
    fflast,         \* the last find_force_fields call: [op, given, returned,
                    \* directory, pre, err, calls]
    test_molecule,  \* the nodes of the molecule AnnotateIDRs works on
    id_regions      \* the regions of the last AnnotateIDRs run

poolVars == <<tasks, worker, results, handed>>
nameVars == <<known, matched, collected>>
bondVars == <<atom, mol_idx, molecules, edges, proc, last, pre_edges, pre_molecules,
              err, nameVars, poolVars>>
goVars == <<molecule, sections, golast>>
ffVars == <<force_fields, fflast>>
idrVars == <<test_molecule, id_regions>>
otherVars == <<goVars, ffVars, idrVars>>

vars == <<bondVars, otherVars>>

----------------------------------------------------------------------------
(* Data of the program *)

\* Van der Waals radii, make_bonds.py:38-58, in 0.001 nm.
VDW_RADII ==
    [H |-> 120, He |-> 140, C |-> 170, N |-> 155, O |-> 152, F |-> 147,
     Ne |-> 154, Si |-> 210, P |-> 180, S |-> 180, Cl |-> 175, Ar |-> 188,
     As |-> 185, Se |-> 1900, Br |-> 185, Kr |-> 202, Te |-> 206, I |-> 198,
     Xe |-> 216]

SetMax(S) == CHOOSE x \in S : \A y \in S : y <= x

\* max(VDW_RADII.values())
MaxRadius == SetMax({VDW_RADII[e] : e \in DOMAIN VDW_RADII})

\* force_field.blocks: residue name -> reference graph.  A block is given by
\* its atom names (one node per name) and its edges between names.
Blocks ==
    [GLY |-> [names |-> {"N", "CA", "C"},
              edges |-> {{"N", "CA"}, {"CA", "C"}}]]

\* The names bound in the module namespace of make_bonds.py (imports and
\* module-level assignments, lines 20-58) and the parameters and locals of
\* make_bonds (lines 219, 250-254).
ModuleNames ==
    {"defaultdict", "nx", "np", "KDTree", "Molecule", "Processor",
     "format_atom_string", "StyleAdapter", "get_logger", "LOGGER", "VDW_RADII"}
MakeBondsLocals ==
    {"molecule", "allow_name", "allow_dist", "fudge", "non_edges",
     "residue_groups", "mol_idx", "chain", "resid", "resname", "idxs"}

----------------------------------------------------------------------------
(* Helpers on sequences and graphs *)

Range(s) == {s[i] : i \in DOMAIN s}

RECURSIVE Concat(_)
Concat(ss) == IF ss = <<>> THEN <<>> ELSE Head(ss) \o Concat(Tail(ss))

Restrict(s, S) == SelectSeq(s, LAMBDA x : x \in S)

\* The edges of the subgraph induced by the nodes S.
Subgraph(E, S) == {e \in E : e \subseteq S}

Pairs(S) == {{a, b} : a \in S, b \in S} \ {{a} : a \in S}

Abs(x) == IF x < 0 THEN 0 - x ELSE x

\* Euclidean distance between two atoms that both have a position.
Dist(a, b) == Abs(atom[a].position[1] - atom[b].position[1])

----------------------------------------------------------------------------
(* _residue_key_func and _collect_residues, make_bonds.py:62-80 *)

\* As residue_key_func, without the chain.
residue_key_func_no_chain(mi, n) ==
    <<mi[n], atom[n].resid, atom[n].resname>>

residue_key_func(mi, n) ==
    <<mi[n], atom[n].chain, atom[n].resid, atom[n].resname>>

RECURSIVE collect_loop(_, _, _)
collect_loop(graph, mi, residues) ==
    IF graph = <<>> THEN residues
    ELSE LET node_idx == Head(graph)
             key == residue_key_func(mi, node_idx)
             old == IF key \in DOMAIN residues THEN residues[key] ELSE {}
         IN  collect_loop(Tail(graph), mi,
                 [k \in DOMAIN residues \cup {key} |->
                     IF k = key THEN old \cup {node_idx} ELSE residues[k]])

\* {key: set(indices)} for the nodes of graph (a sequence of atoms).
collect_residues(graph, mi) == collect_loop(graph, mi, <<>>)

\* The groups, residue_groups.values().
residue_groups_of(graph, mi) ==
    LET residues == collect_residues(graph, mi)
    IN  {residues[k] : k \in DOMAIN residues}

----------------------------------------------------------------------------
(* _bonds_from_distance, make_bonds.py:83-151 *)

\* graph.nodes[subn].get('element') in VDW_RADII
HasRadius(n) == atom[n].element \in DOMAIN VDW_RADII

\* The pairs the KDTree query returns (lines 117-128): max_dist is already
\* max(VDW_RADII) * fudge and the query radius is max_dist * fudge.
\* dist <= MaxRadius * fudge * fudge, with fudge = f[1] / f[2].
InQueryRange(a, b, f) ==
    Dist(a, b) * f[2] * f[2] <= MaxRadius * f[1] * f[1]

\* dist <= bond_distance * fudge, bond_distance = 0.5 * (r1 + r2)  (145-146)
WithinBondDistance(a, b, f) ==
    2 * Dist(a, b) * f[2]
        <= (VDW_RADII[atom[a].element] + VDW_RADII[atom[b].element]) * f[1]

\* The edges one call adds.  graph is the set of nodes of the graph, E its
\* edges; nodes = {} and non_edges = {} stand for the defaults (None).
\* As distance_new_edges, but every atom that has an element is eligible, an
\* element without a known radius counting as a carbon.
distance_new_edges_any_element(graph, E, nodes, non_edges, f) ==
    LET sel == IF nodes = {} THEN graph ELSE nodes
        eligible == {n \in graph : n \in sel /\ atom[n].element # "None"}
        r(n) == IF HasRadius(n) THEN VDW_RADII[atom[n].element] ELSE VDW_RADII.C
    IN  {p \in Pairs(eligible) \ non_edges :
            /\ \E a \in p, b \in p :
                  /\ a # b
                  /\ InQueryRange(a, b, f)
                  /\ 2 * Dist(a, b) * f[2] <= (r(a) + r(b)) * f[1]
            /\ p \notin E}

\* As distance_new_edges, without the test of line 142.
distance_new_edges_all(graph, E, nodes, non_edges, f) ==
    LET sel == IF nodes = {} THEN graph ELSE nodes
        eligible == {n \in graph : n \in sel /\ HasRadius(n)}
    IN  {p \in Pairs(eligible) :
            /\ \E a \in p, b \in p : a # b /\ InQueryRange(a, b, f)
                                        /\ WithinBondDistance(a, b, f)
            /\ p \notin E}

distance_new_edges(graph, E, nodes, non_edges, f) ==
    LET sel == IF nodes = {} THEN graph ELSE nodes
        eligible == {n \in graph : n \in sel /\ HasRadius(n)}
        pairs == {p \in Pairs(eligible) :
                     \E a \in p, b \in p : a # b /\ InQueryRange(a, b, f)}
    IN  {p \in pairs :
            /\ p \notin non_edges
            /\ \E a \in p, b \in p : a # b /\ WithinBondDistance(a, b, f)
            /\ p \notin E}

\* As bonds_from_distance, but the graph is left with the new edges only.
bonds_from_distance_new_only(graph, E, nodes, non_edges, f) ==
    [edges |-> distance_new_edges(graph, E, nodes, non_edges, f), err |-> "none"]

\* As bonds_from_distance, but a pair within bond distance that is already an
\* edge loses its edge.
bonds_from_distance_toggle(graph, E, nodes, non_edges, f) ==
    LET close == distance_new_edges(graph, {}, nodes, non_edges, f)
    IN  [edges |-> (E \ close) \cup (close \ E), err |-> "none"]

bonds_from_distance(graph, E, nodes, non_edges, f) ==
    LET sel == IF nodes = {} THEN graph ELSE nodes
        eligible == {n \in graph : n \in sel /\ HasRadius(n)}
    IN  IF \E n \in eligible : atom[n].position = <<>>
        THEN [edges |-> E, err |-> "KeyError"]      \* line 120
        ELSE [edges |-> E \cup distance_new_edges(graph, E, nodes, non_edges, f),
              err |-> "none"]

----------------------------------------------------------------------------
(* _bonds_from_names, make_bonds.py:154-216 *)

\* mol_name_to_idx before the duplicate check: atom name -> set of nodes.
name_to_idxs(nodes) ==
    [name \in {atom[n].atomname : n \in {x \in nodes : atom[x].atomname # "None"}}
        |-> {n \in nodes : atom[n].atomname = name}]

\* As bonds_from_names, but an edge of the block is added only between atoms
\* that both have a position.
bonds_from_names_positioned(E, resname, nodes, blocks) ==
    IF resname \notin DOMAIN blocks \/ blocks[resname].names = {}
    THEN [edges |-> E, non_edges |-> {}, err |-> "KeyError"]
    ELSE
    LET block == blocks[resname]
        idxs == name_to_idxs(nodes)
    IN  IF \E name \in DOMAIN idxs : Cardinality(idxs[name]) > 1
        THEN [edges |-> E, non_edges |-> {}, err |-> "KeyError"]
        ELSE
        LET idx(name) == CHOOSE n \in idxs[name] : TRUE
            present(p) == p \subseteq DOMAIN idxs
            real(p) == {idx(name) : name \in p}
            placed(p) == \A n \in real(p) : atom[n].position # <<>>
        IN  [edges |-> E \cup {real(p) : p \in {q \in block.edges :
                                                 present(q) /\ placed(q)}},
             non_edges |-> {real(p) : p \in {q \in Pairs(block.names) \ block.edges :
                                                present(q)}},
             err |-> "none"]

\* Result [edges, non_edges, err] of one call on the residue `nodes`.
bonds_from_names(E, resname, nodes, blocks) ==
    IF resname \notin DOMAIN blocks \/ blocks[resname].names = {}
    THEN [edges |-> E, non_edges |-> {}, err |-> "KeyError"]         \* 182-185
    ELSE
    LET block == blocks[resname]
        idxs == name_to_idxs(nodes)
    IN  IF \E name \in DOMAIN idxs : Cardinality(idxs[name]) > 1
        THEN [edges |-> E, non_edges |-> {}, err |-> "KeyError"]     \* 192-195
        ELSE
        LET idx(name) == CHOOSE n \in idxs[name] : TRUE
            present(p) == p \subseteq DOMAIN idxs
            real(p) == {idx(name) : name \in p}
        IN  [edges |-> E \cup {real(p) : p \in {q \in block.edges : present(q)}},
             non_edges |-> {real(p) : p \in {q \in Pairs(block.names) \ block.edges :
                                                present(q)}},
             err |-> "none"]

----------------------------------------------------------------------------
(* make_bonds, make_bonds.py:219-275 *)

\* Python resolves a name used in make_bonds among its parameters and locals,
\* then in the module namespace; a name found in neither raises NameError.
NameBound(name) == name \in MakeBondsLocals \cup ModuleNames

PosIn(graph, n) == CHOOSE i \in DOMAIN graph : graph[i] = n

\* residue_groups.values() in dict order: groups by first appearance in graph.
ordered_groups(graph, mi) ==
    LET groups == residue_groups_of(graph, mi)
        group(n) == CHOOSE g \in groups : n \in g
        firsts == SelectSeq(graph, LAMBDA n :
                      \A m \in group(n) : PosIn(graph, n) <= PosIn(graph, m))
    IN  [i \in 1..Len(firsts) |-> group(firsts[i])]

\* The loop of lines 254-267 over the residues left in `groups`.  st is
\* [edges, known, matched, warnings, err]; graph is the set of nodes.
RECURSIVE names_loop(_, _, _, _, _)
names_loop(groups, graph, st, allow_dist, f) ==
    IF groups = <<>> \/ st.err # "none" THEN st
    ELSE
    LET idxs == Head(groups)
        resname == atom[CHOOSE n \in idxs : TRUE].resname
    IN  IF ~NameBound("force_field")
        THEN [st EXCEPT !.err = "NameError"]                       \* line 259
        ELSE
        LET r == bonds_from_names(st.edges, resname, idxs, Blocks)
        IN  IF r.err = "none"
            THEN names_loop(Tail(groups), graph,
                     [st EXCEPT !.edges = r.edges,
                                !.known = @ \cup r.non_edges,
                                !.matched = @ \cup {idxs}],
                     allow_dist, f)
            ELSE
            LET d == IF allow_dist
                     THEN bonds_from_distance(graph, st.edges, idxs, {}, f)
                     ELSE [edges |-> st.edges, err |-> "none"]
            IN  names_loop(Tail(groups), graph,
                    [st EXCEPT !.edges = d.edges,
                               !.err = d.err,
                               !.warnings = IF d.err = "none" THEN @ + 1 ELSE @],
                    allow_dist, f)

\* make_bonds on the graph whose nodes are the sequence `graph` and whose
\* edges are E.  The result holds the edges of the graph when the call
\* returns or raises, and the exception raised ("none" on return).
make_bonds(graph, E, mi, allow_name, allow_dist, f) ==
    LET st0 == [edges |-> E, known |-> {}, matched |-> {}, warnings |-> 0,
                err |-> "none"]
        st1 == IF allow_name
               THEN names_loop(ordered_groups(graph, mi), Range(graph), st0,
                               allow_dist, f)
               ELSE st0
    IN  IF st1.err # "none" \/ ~allow_dist THEN st1
        ELSE LET d == bonds_from_distance(Range(graph), st1.edges, {},
                                          st1.known, f)
             IN  [st1 EXCEPT !.edges = d.edges, !.err = d.err]

----------------------------------------------------------------------------
(* MakeBonds, make_bonds.py:278-321 *)

\* The molecules of the residue graph's connected components (lines 303-309).
\* As Reach, but over the atoms' graph instead of the residue graph.
RECURSIVE Reach_atoms(_, _, _)
Reach_atoms(S, E, groups) ==
    LET T == S \cup {y \in UNION groups : \E x \in S : {x, y} \in E}
    IN  IF T = S THEN S ELSE Reach_atoms(T, E, groups)

RECURSIVE Reach(_, _, _)
Reach(S, E, groups) ==
    LET T == S \cup UNION {g \in groups : \E x \in S, y \in g : {x, y} \in E}
    IN  IF T = S THEN S ELSE Reach(T, E, groups)

RECURSIVE split_loop(_, _, _, _, _)
split_loop(system, E, groups, done, out) ==
    LET rest == Restrict(system, Range(system) \ done)
    IN  IF rest = <<>> THEN out
        ELSE LET first == CHOOSE g \in groups : Head(rest) \in g
                 node_idxs == Reach(first, E, groups)
             IN  split_loop(system, E, groups, done \cup node_idxs,
                            Append(out, Restrict(system, node_idxs)))

\* As split_molecules, but every atom is a group of its own.
split_molecules_atoms(system, E, mi) ==
    split_loop(system, E, {{a} : a \in Range(system)}, {}, <<>>)

split_molecules(system, E, mi) ==
    split_loop(system, E, residue_groups_of(system, mi), {}, <<>>)

\* `self.nproc and self.nproc > 1` (line 294); nproc 0 stands for None.
UsesPool_any(nproc) == nproc # 0
UsesPool(nproc) == nproc # 0 /\ nproc > 1

\* nx.set_node_attributes(molecule, mol_idx, 'mol_idx') for every molecule.
set_mol_idx(mols) ==
    [a \in Atoms |->
        IF \E i \in DOMAIN mols : a \in Range(mols[i])
        THEN <<(CHOOSE i \in DOMAIN mols : a \in Range(mols[i])) - 1>>
        ELSE <<>>]

\* run_molecule of molecule i of mols (line 317-321).
run_molecule(mols, i, E, mi, p) ==
    make_bonds(mols[i], Subgraph(E, Range(mols[i])), mi,
               p.allow_name, p.allow_dist, p.fudge)

\* Processor.run_system with a pool: run_molecule on a copy of each
\* molecule, results back in input order; an exception of a worker is raised
\* again in the caller and system.molecules is not assigned.
pool_run_system(mols, E, mi, p) ==
    LET res == [i \in DOMAIN mols |-> run_molecule(mols, i, E, mi, p)]
        bad == {i \in DOMAIN mols : res[i].err # "none"}
    IN  IF bad # {}
        THEN [molecules |-> mols, edges |-> E,
              err |-> res[CHOOSE i \in bad : \A j \in bad : i <= j].err]
        ELSE [molecules |-> mols,
              edges |-> E \cup UNION {res[i].edges : i \in DOMAIN mols},
              err |-> "none"]

\* Processor.run_system given the fused graph: the molecule-level
\* transformation runs once, on the whole graph.
processor_run_graph(system, E, mi, p) ==
    make_bonds(system, E, mi, p.allow_name, p.allow_dist, p.fudge)

\* As fused_run_system, but the system keeps the molecules it had.
fused_run_system_keep(mols, E, mi, p) ==
    LET r == processor_run_graph(Concat(mols), E, mi, p)
    IN  IF r.err # "none"
        THEN [molecules |-> mols, edges |-> E, err |-> r.err]
        ELSE [molecules |-> mols, edges |-> r.edges, err |-> "none"]

\* The else branch of run_system (lines 297-310).  The list of line 310 is
\* taken as the molecules of the system after the call.
fused_run_system(mols, E, mi, p) ==
    LET system == Concat(mols)
        r == processor_run_graph(system, E, mi, p)
        out == split_molecules(system, r.edges, mi)
    IN  IF r.err # "none"
        THEN [molecules |-> mols, edges |-> E, err |-> r.err]
        ELSE [molecules |-> out,
              edges |-> UNION {Subgraph(r.edges, Range(out[i])) : i \in DOMAIN out},
              err |-> "none"]

NoCall == [op |-> "none", path |-> "none", target |-> 0, repeat |-> FALSE]

\* MakeBonds.run_system(system)
RunSystem ==
    /\ molecules # <<>>
    /\ \E mi \in {set_mol_idx(molecules)} :
       \E r \in {IF UsesPool(proc.nproc)
                 THEN pool_run_system(molecules, edges, mi, proc)
                 ELSE fused_run_system(molecules, edges, mi, proc)} :
           /\ mol_idx' = mi
           /\ molecules' = r.molecules
           /\ edges' = r.edges
           /\ err' = r.err
           /\ last' = [op |-> "run_system",
                       path |-> IF UsesPool(proc.nproc) THEN "pool" ELSE "fused",
                       target |-> 0,
                       repeat |-> last.op = "run_system"]
    /\ pre_edges' = edges
    /\ pre_molecules' = molecules
    /\ UNCHANGED <<otherVars, atom, proc, nameVars, poolVars>>

\* MakeBonds.run_molecule(system.molecules[i]), in place.
RunMolecule(i) ==
    /\ i \in DOMAIN molecules
    /\ \E r \in {run_molecule(molecules, i, edges, mol_idx, proc)} :
           /\ edges' = edges \cup r.edges
           /\ err' = r.err
    /\ last' = [op |-> "run_molecule", path |-> "none", target |-> i,
                repeat |-> last.op = "run_molecule" /\ last.target = i]
    /\ pre_edges' = edges
    /\ pre_molecules' = molecules
    /\ UNCHANGED <<otherVars, atom, mol_idx, molecules, proc, nameVars, poolVars>>

----------------------------------------------------------------------------
(* The systems and processors the model starts from *)

Fudges == {<<1, 2>>, <<1, 1>>}          \* fudge 0.5 and 1.0 (the default)
Nprocs == {0, 1, 2}                     \* nproc None, 1 and 2

Elements == {"C", "Se", "Zz"}           \* "Zz" is not a key of VDW_RADII
Coordinates == {0, 150, 170, 300, 950}
Gaps == {150, 300}

Atom(rid, name, element, x) ==
    [chain |-> rid[1], resid |-> rid[2], resname |-> rid[3],
     atomname |-> name, element |-> element, position |-> <<x>>]

\* Atoms listed along the axis, the first one at the origin.
Sorted(xs) == xs[1] = 0 /\ \A a \in Atoms \ {1} : xs[a - 1] <= xs[a]

\* The coordinate of atom a when gs[b] separates atom b from atom b - 1.
RECURSIVE Along(_, _)
Along(gs, a) == IF a = 1 THEN 0 ELSE Along(gs, a - 1) + gs[a]

\* One residue, every element and coordinate.
GeometrySystems ==
    {[a \in Atoms |-> Atom(<<"A", 1, "GLY">>, "CA", el[a], xs[a])] :
        el \in [Atoms -> Elements],
        xs \in {c \in [Atoms -> Coordinates] : Sorted(c)}}

\* Carbon atoms 0.15 or 0.30 nm apart, in residue 1 or 2 of an unknown
\* residue name.
ResidueSystems ==
    {[a \in Atoms |-> Atom(<<"A", rid[a], "UNK">>, "CA", "C", Along(gs, a))] :
        rid \in [Atoms -> {1, 2}],
        gs \in [Atoms -> Gaps]}

SortedSeq(S) ==
    [k \in 1..Cardinality(S) |->
        CHOOSE x \in S : Cardinality({y \in S : y < x}) = k - 1]

\* The molecules of a system whose molecules end after the atoms of `cuts`.
MoleculesOf(cuts) ==
    LET molOf(a) == Cardinality({c \in cuts : c < a}) + 1
    IN  [i \in 1..(Cardinality(cuts) + 1) |->
            SortedSeq({a \in Atoms : molOf(a) = i})]

SameMolecule(mols, a, b) ==
    \E i \in DOMAIN mols : a \in Range(mols[i]) /\ b \in Range(mols[i])

Processors ==
    [allow_name : BOOLEAN, allow_dist : BOOLEAN, fudge : Fudges, nproc : Nprocs]

\* A molecule with no atom, no interaction and no metadata.
NoMolecule ==
    [nodes |-> <<>>, edges |-> {}, interactions |-> <<>>,
     meta |-> [moltype |-> <<>>, post_section_lines |-> <<>>], heap |-> <<>>]

NoGoCall ==
    [op |-> "none", err |-> "none", pre |-> NoMolecule, backbone |-> "BB",
     calls |-> 0, passes |-> 0, lines0 |-> <<>>, moves |-> 0]

NoLoad ==
    [op |-> "none", given |-> 0, returned |-> 0, directory |-> <<>>,
     pre |-> [dicts |-> <<>>, instances |-> <<>>], err |-> "none", calls |-> 0]

\* The processors and data that take no part in a run of MakeBonds.
InitOther ==
    /\ molecule = NoMolecule
    /\ sections = <<>>
    /\ golast = NoGoCall
    /\ force_fields = [dicts |-> <<>>, instances |-> <<>>]
    /\ fflast = NoLoad
    /\ test_molecule = <<>>
    /\ id_regions = <<>>

InitRest ==
    /\ InitOther
    /\ last = NoCall
    /\ pre_edges = edges
    /\ pre_molecules = molecules
    /\ err = "none"
    /\ known = {}
    /\ matched = {}
    /\ collected = <<>>
    /\ tasks = <<>>
    /\ worker = [w \in 1..NWorkers |-> 0]
    /\ results = <<>>
    /\ handed = <<>>

\* The structure reader gives molecules without edges.
Init ==
    /\ \/ atom \in GeometrySystems /\ molecules = MoleculesOf({})
       \/ /\ atom \in ResidueSystems
          /\ \E cuts \in SUBSET (Atoms \ {NAtoms}) : molecules = MoleculesOf(cuts)
    /\ edges = {}
    /\ mol_idx = [a \in Atoms |-> <<>>]
    /\ proc \in Processors
    /\ InitRest

Next ==
    \/ RunSystem
    \/ \E i \in DOMAIN molecules : RunMolecule(i)

Spec == Init /\ [][Next]_vars

----------------------------------------------------------------------------
(* Properties of MakeBonds *)

Called == last.op \in {"run_system", "run_molecule"}
FusedDone == last.op = "run_system" /\ last.path = "fused" /\ err = "none"
PoolDone == last.op = "run_system" /\ last.path = "pool" /\ err = "none"

AllAtomsOnce(mols) ==
    /\ Len(Concat(mols)) = NAtoms
    /\ Range(Concat(mols)) = Atoms

\* C1: make_bonds and MakeBonds.run_system only add edges: every edge present
\* before the call is present after it, and the molecules hold the same
\* atoms, each once, whatever allow_name, allow_dist and fudge are.
C1_EdgesOnlyAdded ==
    Called => /\ pre_edges \subseteq edges
              /\ AllAtomsOnce(molecules)

\* A call of run_system that found edges and added more.
C1_Witness ==
    /\ last.op = "run_system"
    /\ err = "none"
    /\ pre_edges # {}
    /\ edges \ pre_edges # {}

Target == Range(pre_molecules[last.target])

AtThreshold(a, b, f) ==
    2 * Dist(a, b) * f[2]
        = (VDW_RADII[atom[a].element] + VDW_RADII[atom[b].element]) * f[1]

DistanceOnly ==
    /\ last.op = "run_molecule"
    /\ ~proc.allow_name
    /\ proc.allow_dist
    /\ err = "none"

\* C3: after the distance pass, a pair of atoms with known radii that was
\* not bonded and is not a known non-edge is bonded when its distance is
\* exactly 0.5 * (r1 + r2) * fudge and is not bonded when it is greater.
C3_Threshold ==
    DistanceOnly =>
        \A a \in Target, b \in Target :
            (a < b /\ HasRadius(a) /\ HasRadius(b) /\ {a, b} \notin pre_edges) =>
                /\ AtThreshold(a, b, proc.fudge) => {a, b} \in edges
                /\ ~WithinBondDistance(a, b, proc.fudge) => {a, b} \notin edges

\* C4: a call repeated on its own output, with the same switches and fudge,
\* leaves the edge set as the first call left it.
C4_Idempotent == last.repeat => edges = pre_edges

\* run_system ran a second time on a system in which it had found bonds.
C4_Witness ==
    /\ last.repeat
    /\ last.op = "run_system"
    /\ err = "none"
    /\ edges # {}
    /\ Len(molecules) > 1

\* C5: after the fused run_system, atoms with the same residue key (molecule
\* index, chain, residue id, residue name) are in the same output molecule,
\* and every output molecule that holds one of them holds the other.
C5_ResidueAtomicity ==
    FusedDone =>
        \A a \in Atoms, b \in Atoms :
            residue_key_func(mol_idx, a) = residue_key_func(mol_idx, b)
                => /\ SameMolecule(molecules, a, b)
                   /\ \A i \in DOMAIN molecules :
                          a \in Range(molecules[i]) => b \in Range(molecules[i])

\* A residue with an atom that has no bond, kept in one of several output
\* molecules.
C5_Witness ==
    /\ FusedDone
    /\ Len(molecules) > 1
    /\ \E a \in Atoms, b \in Atoms :
          /\ a # b
          /\ residue_key_func(mol_idx, a) = residue_key_func(mol_idx, b)
          /\ \A c \in Atoms : {a, c} \notin edges

C8_PoolKeepsMolecules ==
    last.op = "run_system" =>
        /\ last.path = "pool" <=> proc.nproc > 1
        /\ last.path = "fused" <=> proc.nproc <= 1
        /\ last.path = "pool" =>
              /\ molecules = pre_molecules
              /\ \A e \in edges \ pre_edges :
                    \E i \in DOMAIN pre_molecules : e \subseteq Range(pre_molecules[i])

\* A pool run that bonded two atoms of one molecule and left two atoms of
\* different molecules within bond distance without an edge.
C8_Witness ==
    /\ PoolDone
    /\ edges \ pre_edges # {}
    /\ \E a \in Atoms, b \in Atoms :
          /\ ~SameMolecule(molecules, a, b)
          /\ HasRadius(a) /\ HasRadius(b)
          /\ InQueryRange(a, b, proc.fudge)
          /\ WithinBondDistance(a, b, proc.fudge)
          /\ {a, b} \notin edges

\* Name matching of the residue `idxs` raises KeyError.
NameMatchingFails(idxs) ==
    bonds_from_names({}, atom[CHOOSE n \in idxs : TRUE].resname, idxs, Blocks).err
        = "KeyError"

\* C10: when name matching of a residue of the molecule fails, make_bonds
\* raises nothing.
C10_NoFailure ==
    (/\ last.op = "run_molecule"
     /\ proc.allow_name
     /\ \E g \in residue_groups_of(pre_molecules[last.target], mol_idx) :
            NameMatchingFails(g))
        => err = "none"

----------------------------------------------------------------------------
(* _collect_residues called on a graph *)

\* (chain, resid, resname): the first differs from each other one in exactly
\* one component.
ResidueIds ==
    {<<"A", 1, "GLY">>, <<"B", 1, "GLY">>, <<"A", 2, "GLY">>, <<"A", 1, "UNK">>}

\* Carbon atoms at the origin, every residue identifier.
KeySystems ==
    {[a \in Atoms |-> Atom(rid[a], "CA", "C", 0)] : rid \in [Atoms -> ResidueIds]}

\* mol_idx unset, or set by an earlier run_system.
InitResidues ==
    /\ atom \in KeySystems
    /\ molecules = MoleculesOf({})
    /\ edges = {}
    /\ \E f \in Fudges :
          proc = [allow_name |-> TRUE, allow_dist |-> TRUE, fudge |-> f,
                  nproc |-> 0]
    /\ InitRest
    /\ mol_idx \in [Atoms -> {<<>>, <<0>>, <<1>>}]

\* _collect_residues(graph) on the graph of all the atoms.
CollectResidues ==
    /\ collected' = collect_residues(Concat(molecules), mol_idx)
    /\ last' = [op |-> "collect_residues", path |-> "none", target |-> 0,
                repeat |-> FALSE]
    /\ UNCHANGED <<otherVars, atom, mol_idx, molecules, edges, proc, pre_edges,
                   pre_molecules, err, known, matched, poolVars>>

SpecResidues == InitResidues /\ [][CollectResidues]_vars

Grouped(a, b) ==
    \E k \in DOMAIN collected : a \in collected[k] /\ b \in collected[k]

\* C7: _collect_residues puts two atoms in one group exactly when their
\* molecule index, chain, residue id and residue name are all equal, and the
\* groups partition the atoms of the graph.
C7_GroupingExact ==
    last.op = "collect_residues" =>
        /\ \A a \in Atoms, b \in Atoms :
              Grouped(a, b) <=> /\ mol_idx[a] = mol_idx[b]
                                /\ atom[a].chain = atom[b].chain
                                /\ atom[a].resid = atom[b].resid
                                /\ atom[a].resname = atom[b].resname
        /\ \A a \in Atoms :
              Cardinality({k \in DOMAIN collected : a \in collected[k]}) = 1
        /\ \A k \in DOMAIN collected : collected[k] # {}

OnlyDiffers(a, b, what) ==
    /\ (mol_idx[a] = mol_idx[b]) <=> what # "mol_idx"
    /\ (atom[a].chain = atom[b].chain) <=> what # "chain"
    /\ atom[a].resid = atom[b].resid
    /\ atom[a].resname = atom[b].resname

\* Two atoms that differ only in chain and two that differ only in molecule
\* index, in different groups.
C7_Witness ==
    /\ last.op = "collect_residues"
    /\ \E a \in Atoms, b \in Atoms : OnlyDiffers(a, b, "chain") /\ ~Grouped(a, b)
    /\ \E a \in Atoms, b \in Atoms : OnlyDiffers(a, b, "mol_idx") /\ ~Grouped(a, b)

----------------------------------------------------------------------------
(* _bonds_from_names and _bonds_from_distance called on one graph, with the *)
(* arguments make_bonds gives them and the force field passed explicitly    *)

AtomNames == {"N", "CA", "C"}
NamedResidues == << <<"A", 1, "GLY">>, <<"A", 2, "GLY">>, <<"A", 3, "UNK">> >>

\* Carbon atoms 0.15 or 0.30 nm apart, with the atom names of the GLY block,
\* the atoms of a residue next to each other as in a structure file.
NamedSystems ==
    {[a \in Atoms |-> Atom(NamedResidues[r[a]], name[a], "C", Along(gs, a))] :
        r \in {q \in [Atoms -> DOMAIN NamedResidues] :
                  \A a \in Atoms, b \in Atoms : a < b => q[a] <= q[b]},
        name \in [Atoms -> AtomNames],
        gs \in {g \in [Atoms -> Gaps] : g[1] = 150}}

InitHelpers ==
    /\ atom \in NamedSystems
    /\ molecules = MoleculesOf({})
    /\ edges = {}
    /\ mol_idx = [a \in Atoms |-> <<>>]
    /\ \E f \in Fudges :
          proc = [allow_name |-> TRUE, allow_dist |-> TRUE, fudge |-> f,
                  nproc |-> 0]
    /\ InitRest

Graph == Range(Concat(molecules))
MinOf(S) == CHOOSE x \in S : \A y \in S : x <= y

HelperFrame == UNCHANGED <<otherVars, atom, mol_idx, molecules, proc, pre_molecules,
                           collected, poolVars>>

\* non_edges.update(_bonds_from_names(molecule, resname, idxs, force_field))
\* for the residue idxs (line 259); a KeyError is left in err.
BondsFromNames(idxs) ==
    /\ idxs \in residue_groups_of(Concat(molecules), mol_idx)
    /\ \E r \in {bonds_from_names(edges, atom[MinOf(idxs)].resname, idxs, Blocks)} :
          /\ edges' = r.edges
          /\ known' = known \cup r.non_edges
          /\ matched' = IF r.err = "none" THEN matched \cup {idxs} ELSE matched
          /\ err' = r.err
    /\ last' = [op |-> "bonds_from_names", path |-> "none", target |-> MinOf(idxs),
                repeat |-> FALSE]
    /\ pre_edges' = edges
    /\ HelperFrame

\* _bonds_from_distance(molecule, idxs, fudge=fudge) in the handler of the
\* KeyError that name matching of the residue idxs raised (line 264).
DistanceFallback ==
    /\ last.op = "bonds_from_names"
    /\ err = "KeyError"
    /\ \E idxs \in residue_groups_of(Concat(molecules), mol_idx) :
          /\ MinOf(idxs) = last.target
          /\ \E r \in {bonds_from_distance(Graph, edges, idxs, {}, proc.fudge)} :
                /\ edges' = r.edges
                /\ err' = r.err
    /\ last' = [op |-> "bonds_from_distance", path |-> "residue",
                target |-> last.target, repeat |-> FALSE]
    /\ pre_edges' = edges
    /\ UNCHANGED <<known, matched>>
    /\ HelperFrame

\* _bonds_from_distance(molecule, non_edges=non_edges, fudge=fudge) (line 273)
DistanceGlobal ==
    /\ \E r \in {bonds_from_distance(Graph, edges, {}, known, proc.fudge)} :
          /\ edges' = r.edges
          /\ err' = r.err
    /\ last' = [op |-> "bonds_from_distance", path |-> "global", target |-> 0,
                repeat |-> FALSE]
    /\ pre_edges' = edges
    /\ UNCHANGED <<known, matched>>
    /\ HelperFrame

NextHelpers ==
    \/ \E idxs \in SUBSET Atoms : BondsFromNames(idxs)
    \/ DistanceFallback
    \/ DistanceGlobal

SpecHelpers == InitHelpers /\ [][NextHelpers]_vars

\* The pairs of atoms of a name-matched residue whose atom names are in the
\* block of the residue and are not joined by an edge of the block.
BlockNonEdges ==
    UNION {{{a, b} : a \in g, b \in g} : g \in matched}
        \cap {p \in Pairs(Atoms) :
                \E a \in p, b \in p :
                    /\ a # b
                    /\ atom[a].resname \in DOMAIN Blocks
                    /\ {atom[a].atomname, atom[b].atomname}
                          \subseteq Blocks[atom[a].resname].names
                    /\ {atom[a].atomname, atom[b].atomname}
                          \notin Blocks[atom[a].resname].edges}

\* C2: the distance pass never adds an edge between two atoms of a
\* name-matched residue whose atom names are in its block without a block
\* edge between them, whatever their distance and the fudge.
C2_NonEdgeAuthority ==
    last.op = "bonds_from_distance" => (edges \ pre_edges) \cap BlockNonEdges = {}

\* A global distance pass that added an edge and left a block non-edge that
\* is within bond distance without one.
C2_Witness ==
    /\ last.op = "bonds_from_distance"
    /\ last.path = "global"
    /\ edges \ pre_edges # {}
    /\ \E p \in BlockNonEdges \ edges :
          \E a \in p, b \in p : a # b /\ WithinBondDistance(a, b, proc.fudge)

----------------------------------------------------------------------------
(* The parallel path of run_system step by step: the pool of spec section   *)
(* 4.4, one worker per configured process, each running run_molecule        *)

Workers == 1..NWorkers

InitPar ==
    /\ atom \in ResidueSystems
    /\ \E cuts \in SUBSET (1..(NAtoms - 1)) : molecules = MoleculesOf(cuts)
    /\ edges = {}
    /\ mol_idx = [a \in Atoms |-> <<>>]
    /\ \E an \in BOOLEAN, f \in Fudges :
          proc = [allow_name |-> an, allow_dist |-> TRUE, fudge |-> f,
                  nproc |-> NWorkers]
    /\ InitRest

Idle == \A w \in Workers : worker[w] = 0

\* run_system up to the dispatch: mol_idx is set on every molecule
\* (lines 291-292) and each molecule becomes one task of the pool, in input
\* order.
PoolStart ==
    /\ last.op = "none"
    /\ molecules # <<>>
    /\ UsesPool(proc.nproc)
    /\ mol_idx' = set_mol_idx(molecules)
    /\ tasks' = [i \in DOMAIN molecules |-> i]
    /\ last' = [op |-> "run_system", path |-> "dispatch", target |-> 0,
                repeat |-> FALSE]
    /\ pre_edges' = edges
    /\ pre_molecules' = molecules
    /\ UNCHANGED <<otherVars, atom, molecules, edges, proc, err, nameVars, worker, results,
                   handed>>

\* An idle worker takes the next task off the queue.
WorkerTake(w) ==
    /\ worker[w] = 0
    /\ tasks # <<>>
    /\ worker' = [worker EXCEPT ![w] = Head(tasks)]
    /\ tasks' = Tail(tasks)
    /\ handed' = Append(handed, <<Head(tasks), w>>)
    /\ UNCHANGED <<otherVars, atom, mol_idx, molecules, edges, proc, last, pre_edges,
                   pre_molecules, err, nameVars, results>>

\* A worker runs run_molecule on its copy of the molecule and sends the
\* result back, tagged with the index of the task.
WorkerRun(w) ==
    /\ worker[w] # 0
    /\ \E r \in {run_molecule(molecules, worker[w], edges, mol_idx, proc)} :
          results' = Append(results, [index |-> worker[w],
                                      nodes |-> molecules[worker[w]],
                                      edges |-> r.edges,
                                      err |-> r.err])
    /\ worker' = [worker EXCEPT ![w] = 0]
    /\ UNCHANGED <<otherVars, atom, mol_idx, molecules, edges, proc, last, pre_edges,
                   pre_molecules, err, nameVars, tasks, handed>>

\* As pool_join, with the results kept in the order they came back.
pool_join_completion_order(res, mols, E) ==
    LET bad == {k \in DOMAIN res : res[k].err # "none"}
    IN  IF bad # {}
        THEN [molecules |-> mols, edges |-> E,
              err |-> res[CHOOSE k \in bad : \A j \in bad : k <= j].err]
        ELSE [molecules |-> [k \in DOMAIN res |-> res[k].nodes],
              edges |-> E \cup UNION {res[k].edges : k \in DOMAIN res},
              err |-> "none"]

\* The results put back in the order of their task index; the exception of
\* the first failed task, if any, is raised instead and nothing is assigned.
pool_join(res, mols, E) ==
    LET of(i) == res[CHOOSE k \in DOMAIN res : res[k].index = i]
        bad == {i \in DOMAIN mols : of(i).err # "none"}
    IN  IF bad # {}
        THEN [molecules |-> mols, edges |-> E,
              err |-> of(CHOOSE i \in bad : \A j \in bad : i <= j).err]
        ELSE [molecules |-> [i \in DOMAIN mols |-> of(i).nodes],
              edges |-> E \cup UNION {of(i).edges : i \in DOMAIN mols},
              err |-> "none"]

\* All tasks are done: system.molecules is assigned the recombined list.
PoolJoin ==
    /\ last.path = "dispatch"
    /\ tasks = <<>>
    /\ Idle
    /\ Len(results) = Len(molecules)
    /\ \E r \in {pool_join(results, molecules, edges)} :
          /\ molecules' = r.molecules
          /\ edges' = r.edges
          /\ err' = r.err
    /\ last' = [last EXCEPT !.path = "pool"]
    /\ UNCHANGED <<otherVars, atom, mol_idx, proc, pre_edges, pre_molecules, nameVars,
                   poolVars>>

NextPar ==
    \/ PoolStart
    \/ \E w \in Workers : WorkerTake(w)
    \/ \E w \in Workers : WorkerRun(w)
    \/ PoolJoin

SpecPar == InitPar /\ [][NextPar]_vars

\* The number of times molecule i was handed to a worker.
TimesHanded(i) == Cardinality({k \in DOMAIN handed : handed[k][1] = i})

\* C9: on the parallel path a molecule is handed to at most one worker, and
\* to exactly one by the time the results are recombined; no two workers hold
\* the same molecule at the same time; and after the recombination, whatever
\* the order the workers finished in, the system holds the input molecules in
\* the input order, with the edges the sequential per-molecule run gives.
C9_PoolOwnership ==
    /\ \A i \in DOMAIN molecules : TimesHanded(i) <= 1
    /\ \A w1 \in Workers, w2 \in Workers :
          w1 # w2 /\ worker[w1] # 0 => worker[w1] # worker[w2]
    /\ last.path = "pool" =>
          /\ \A i \in DOMAIN pre_molecules : TimesHanded(i) = 1
          /\ molecules = pre_molecules
          /\ edges = pool_run_system(pre_molecules, pre_edges, mol_idx, proc).edges

\* A recombination of at least two molecules with different atoms whose
\* results came back out of input order, from two different workers.
C9_Witness ==
    /\ last.path = "pool"
    /\ err = "none"
    /\ \E k \in DOMAIN results :
          /\ k + 1 \in DOMAIN results
          /\ results[k].index > results[k + 1].index
    /\ \E k \in DOMAIN handed, j \in DOMAIN handed : handed[k][2] # handed[j][2]
    /\ edges # pre_edges

----------------------------------------------------------------------------
(* The distance pass on atoms without a usable element                      *)

\* "None" stands for an atom with no element attribute; "Zz" is an element
\* that is not a key of VDW_RADII.
MaybeElements == {"C", "Zz", "None"}

\* Atoms 0.15 or 0.30 nm apart, all named CA, in residues that name matching
\* rejects (no block, or the atom name twice) unless they hold one atom; an
\* atom without element has no position either.
ElementSystems ==
    {[a \in Atoms |->
        IF el[a] = "None"
        THEN [Atom(NamedResidues[r[a]], "CA", el[a], 0) EXCEPT !.position = <<>>]
        ELSE Atom(NamedResidues[r[a]], "CA", el[a], Along(gs, a))] :
        r \in {q \in [Atoms -> DOMAIN NamedResidues] :
                  \A a \in Atoms, b \in Atoms : a < b => q[a] <= q[b]},
        el \in [Atoms -> MaybeElements],
        gs \in {g \in [Atoms -> Gaps] : g[1] = 150}}

InitDistance ==
    /\ atom \in ElementSystems
    /\ molecules = MoleculesOf({})
    /\ edges = {}
    /\ mol_idx = [a \in Atoms |-> <<>>]
    /\ \E f \in Fudges :
          proc = [allow_name |-> TRUE, allow_dist |-> TRUE, fudge |-> f,
                  nproc |-> 0]
    /\ InitRest

SpecDistance == InitDistance /\ [][NextHelpers]_vars

DistanceDone == last.op = "bonds_from_distance"

----------------------------------------------------------------------------
(* GoVirtIncludes and add_virtual_sites, go_vs_includes.py:47-147 *)

\* Residues of the molecules the augmentation pass is tried on.
NGoResidues == 5
\* Calls of run_molecule or add_virtual_sites on one molecule.
MaxPasses == 2
\* In-place changes of a position array.
MaxMoves == 1

\* d[k] = v, the other keys of the dict d kept.
SetKey(d, k, v) == [x \in DOMAIN d \cup {k} |-> IF x = k THEN v ELSE d[x]]
\* d.get(k, []) for a dict of lists.
GetList(d, k) == IF k \in DOMAIN d THEN d[k] ELSE <<>>
EmptyDict == [x \in {} |-> <<>>]

NodeIds(mol) == {mol.nodes[i].id : i \in DOMAIN mol.nodes}
NodeOf(mol, id) == mol.nodes[CHOOSE i \in DOMAIN mol.nodes : mol.nodes[i].id = id]

\* As virtual_sites_loop, but with the test of line 126 turned around.
RECURSIVE virtual_sites_loop_others(_, _, _, _, _)
virtual_sites_loop_others(nodes, i, st, prefix, backbone) ==
    IF i > Len(nodes) THEN st
    ELSE IF nodes[i].atomname = backbone
    THEN virtual_sites_loop_others(nodes, i + 1, st, prefix, backbone)
    ELSE
    LET new_node_id == st.new_node_id + 1
        new_charge_group == st.new_charge_group + 1
        node == [id |-> new_node_id,
                 resid |-> nodes[i].resid,
                 resname |-> nodes[i].resname,
                 atype |-> <<prefix, nodes[i].resid>>,
                 charge_group |-> <<new_charge_group>>,
                 chain |-> nodes[i].chain,
                 position |-> nodes[i].position,
                 atomname |-> "CA",
                 charge |-> 0]
        site == [atoms |-> <<new_node_id, nodes[i].id>>,
                 parameters |-> <<"1">>,
                 meta |-> [go_vs |-> TRUE, group |-> "Virtual go site"]]
    IN  virtual_sites_loop_others(nodes, i + 1,
            [new_node_id |-> new_node_id,
             new_charge_group |-> new_charge_group,
             virtual_site_nodes |-> Append(st.virtual_site_nodes, node),
             virtual_sites |-> Append(st.virtual_sites, site)],
            prefix, backbone)

\* The loop of lines 125-143 from node i on; st is [new_node_id,
\* new_charge_group, virtual_site_nodes, virtual_sites].
RECURSIVE virtual_sites_loop(_, _, _, _, _)
virtual_sites_loop(nodes, i, st, prefix, backbone) ==
    IF i > Len(nodes) THEN st
    ELSE IF nodes[i].atomname # backbone
    THEN virtual_sites_loop(nodes, i + 1, st, prefix, backbone)
    ELSE
    LET new_node_id == st.new_node_id + 1
        new_charge_group == st.new_charge_group + 1
        node == [id |-> new_node_id,
                 resid |-> nodes[i].resid,
                 resname |-> nodes[i].resname,
                 atype |-> <<prefix, nodes[i].resid>>,
                 charge_group |-> <<new_charge_group>>,
                 chain |-> nodes[i].chain,
                 position |-> nodes[i].position,
                 atomname |-> "CA",
                 charge |-> 0]
        site == [atoms |-> <<new_node_id, nodes[i].id>>,
                 parameters |-> <<"1">>,
                 meta |-> [go_vs |-> TRUE, group |-> "Virtual go site"]]
    IN  virtual_sites_loop(nodes, i + 1,
            [new_node_id |-> new_node_id,
             new_charge_group |-> new_charge_group,
             virtual_site_nodes |-> Append(st.virtual_site_nodes, node),
             virtual_sites |-> Append(st.virtual_sites, site)],
            prefix, backbone)

\* As add_virtual_sites, but a virtual site gets a copy of the position array
\* of its source atom.
add_virtual_sites_copy(mol, prefix, backbone) ==
    IF mol.nodes = <<>> THEN mol
    ELSE
    LET charge_groups == {mol.nodes[i].charge_group[1] :
                            i \in {j \in DOMAIN mol.nodes :
                                      mol.nodes[j].charge_group # <<>>}}
        st == virtual_sites_loop(mol.nodes, 1,
                [new_node_id |-> SetMax(NodeIds(mol)),
                 new_charge_group |-> IF charge_groups # {}
                                      THEN SetMax(charge_groups) ELSE 0,
                 virtual_site_nodes |-> <<>>,
                 virtual_sites |-> <<>>],
                prefix, backbone)
        top == SetMax(DOMAIN mol.heap)
        n == Len(st.virtual_site_nodes)
        copies == [k \in 1..n |->
                      [st.virtual_site_nodes[k] EXCEPT !.position = top + k]]
    IN  [mol EXCEPT
            !.nodes = @ \o copies,
            !.interactions =
                SetKey(@, "virtual_sitesn",
                       GetList(@, "virtual_sitesn") \o st.virtual_sites),
            !.heap = [r \in DOMAIN mol.heap \cup ((top + 1)..(top + n)) |->
                        IF r \in DOMAIN mol.heap THEN mol.heap[r]
                        ELSE mol.heap[st.virtual_site_nodes[r - top].position]]]

\* As add_virtual_sites, but the new ids and charge groups start at the
\* number of atoms.
add_virtual_sites_count(mol, prefix, backbone) ==
    IF mol.nodes = <<>> THEN mol
    ELSE
    LET st == virtual_sites_loop(mol.nodes, 1,
                [new_node_id |-> Len(mol.nodes),
                 new_charge_group |-> Len(mol.nodes),
                 virtual_site_nodes |-> <<>>,
                 virtual_sites |-> <<>>],
                prefix, backbone)
    IN  [mol EXCEPT
            !.nodes = @ \o st.virtual_site_nodes,
            !.interactions =
                SetKey(@, "virtual_sitesn",
                       GetList(@, "virtual_sitesn") \o st.virtual_sites)]

\* add_virtual_sites(molecule, prefix, backbone), atomname and charge at
\* their defaults (lines 116-147).
add_virtual_sites(mol, prefix, backbone) ==
    IF mol.nodes = <<>> THEN mol                                   \* 118-119
    ELSE
    LET charge_groups == {mol.nodes[i].charge_group[1] :
                            i \in {j \in DOMAIN mol.nodes :
                                      mol.nodes[j].charge_group # <<>>}}
        st == virtual_sites_loop(mol.nodes, 1,
                [new_node_id |-> SetMax(NodeIds(mol)),
                 new_charge_group |-> IF charge_groups # {}
                                      THEN SetMax(charge_groups) ELSE 0,
                 virtual_site_nodes |-> <<>>,
                 virtual_sites |-> <<>>],
                prefix, backbone)
    IN  [mol EXCEPT
            !.nodes = @ \o st.virtual_site_nodes,                  \* 144
            !.interactions =                                       \* 145-147
                SetKey(@, "virtual_sitesn",
                       GetList(@, "virtual_sitesn") \o st.virtual_sites)]

\* '#include "{moltype}_{section}_VirtGoSites.itp"'
IncludeLine(moltype, section) == <<"#include", moltype, section, "VirtGoSites.itp">>

\* The loop of lines 78-82 over the sections left in secs.
RECURSIVE includes_loop(_, _, _)
includes_loop(includes, secs, moltype) ==
    IF secs = <<>> THEN includes
    ELSE includes_loop(
            SetKey(includes, Head(secs),
                   Append(GetList(includes, Head(secs)),
                          IncludeLine(moltype, Head(secs)))),
            Tail(secs), moltype)

\* `not moltype` (line 72): no moltype, or an empty one.
NoMoltype_none_only(moltype) == moltype = <<>>
NoMoltype(moltype) == moltype = <<>> \/ moltype = <<"">>

\* As go_run_molecule, but the include lines of a section replace the lines
\* the section had.
go_run_molecule_replace(mol, secs) ==
    IF NoMoltype(mol.meta.moltype)
    THEN [molecule |-> mol, err |-> "ValueError"]
    ELSE
    LET moltype == mol.meta.moltype[1]
        m == add_virtual_sites(mol, moltype, "BB")
    IN  [molecule |->
            [m EXCEPT !.meta.post_section_lines =
                          <<includes_loop(EmptyDict, secs, moltype)>>],
         err |-> "none"]

\* GoVirtIncludes.run_molecule (lines 70-84): [molecule, err].
go_run_molecule(mol, secs) ==
    IF NoMoltype(mol.meta.moltype)
    THEN [molecule |-> mol, err |-> "ValueError"]                  \* 71-73
    ELSE
    LET moltype == mol.meta.moltype[1]
        m == add_virtual_sites(mol, moltype, "BB")                 \* 75
        includes == IF m.meta.post_section_lines = <<>>            \* 77
                    THEN EmptyDict
                    ELSE m.meta.post_section_lines[1]
    IN  [molecule |->
            [m EXCEPT !.meta.post_section_lines =
                          <<includes_loop(includes, secs, moltype)>>],
         err |-> "none"]

\* An atom of the molecules below: glycine beads, each its own charge group.
GoNode(id, name, resid, cg, ref) ==
    [id |-> id, resid |-> resid, resname |-> "GLY", atype |-> <<"P5">>,
     charge_group |-> cg, chain |-> "A", position |-> ref, atomname |-> name,
     charge |-> 0]

\* The atoms of a chain of residues, a backbone bead each and a side chain
\* bead where kinds says so, numbered from 1 in the order of the chain.
RECURSIVE ChainNodes(_, _, _)
ChainNodes(kinds, r, acc) ==
    IF r > Len(kinds) THEN acc
    ELSE LET n == Len(acc)
             bb == GoNode(n + 1, "BB", r, <<n + 1>>, n + 1)
             sc == GoNode(n + 2, "SC1", r, <<n + 2>>, n + 2)
         IN  ChainNodes(kinds, r + 1,
                        IF kinds[r] = "BBSC" THEN acc \o <<bb, sc>>
                        ELSE Append(acc, bb))

\* The position arrays of n atoms, 1 nm apart along the axis.
GoHeap(n) == [ref \in 1..n |-> 1000 * ref]

GoBonds(nodes) == {{nodes[i].id, nodes[i + 1].id} : i \in 1..(Len(nodes) - 1)}

\* Chains of up to NGoResidues residues, the first ones with a side chain,
\* with a type name, no include line yet and no virtual site.
GoChains ==
    {[nodes |-> ChainNodes(kinds, 1, <<>>),
      edges |-> GoBonds(ChainNodes(kinds, 1, <<>>)),
      interactions |-> [k \in {"bonds"} |-> <<>>],
      meta |-> [moltype |-> <<"molecule_0">>, post_section_lines |-> <<>>],
      heap |-> GoHeap(Len(ChainNodes(kinds, 1, <<>>)))] :
        kinds \in {[r \in 1..k |-> IF r <= j THEN "BBSC" ELSE "BB"] :
                      k \in 0..NGoResidues, j \in 0..NGoResidues}}

\* Molecules of at most two atoms: with or without type name, include lines,
\* charge groups, virtual-site interactions, and ids that leave gaps.
GoSmallMolecules ==
    {[nodes |-> [i \in 1..Len(names) |->
                    GoNode(ids[i], names[i], i,
                           IF cg THEN <<ids[i]>> ELSE <<>>, i)],
      edges |-> IF Len(names) = 2 THEN {{ids[1], ids[2]}} ELSE {},
      interactions |->
          IF vs /\ names # <<>>
          THEN [k \in {"virtual_sitesn"} |->
                  <<[atoms |-> <<ids[1], ids[1]>>, parameters |-> <<"1">>,
                     meta |-> [go_vs |-> FALSE, group |-> "other"]]>>]
          ELSE [k \in {"bonds"} |-> <<>>],
      meta |-> [moltype |-> moltype, post_section_lines |-> lines],
      heap |-> GoHeap(Len(names))] :
        names \in {<<>>, <<"SC1">>, <<"BB">>, <<"BB", "SC1">>, <<"BB", "BB">>},
        ids \in {<<1, 2>>, <<7, 3>>},
        cg \in BOOLEAN,
        vs \in BOOLEAN,
        moltype \in {<<>>, <<"">>, <<"molecule_0">>},
        lines \in {<<>>,
                   <<[k \in {"bonds"} |-> <<<<"#define", "X">>>>]>>,
                   <<[k \in {"exclusions", "bonds"} |-> <<<<"#define", k>>>>]>>}}

GoSections == {<<"exclusions">>, <<"exclusions", "angles">>}

\* The processors and data that take no part in a run of GoVirtIncludes.
InitBondsIdle ==
    /\ atom = <<>>
    /\ mol_idx = <<>>
    /\ molecules = <<>>
    /\ edges = {}
    /\ proc = [allow_name |-> TRUE, allow_dist |-> TRUE, fudge |-> <<1, 1>>,
               nproc |-> 0]
    /\ last = NoCall
    /\ pre_edges = {}
    /\ pre_molecules = <<>>
    /\ err = "none"
    /\ known = {}
    /\ matched = {}
    /\ collected = <<>>
    /\ tasks = <<>>
    /\ worker = [w \in 1..NWorkers |-> 0]
    /\ results = <<>>
    /\ handed = <<>>

Lines0(mol) ==
    IF mol.meta.post_section_lines = <<>> THEN EmptyDict
    ELSE mol.meta.post_section_lines[1]

InitGo ==
    /\ \/ molecule \in GoChains /\ sections = <<"exclusions">>
       \/ molecule \in GoSmallMolecules /\ sections \in GoSections
    /\ golast = [NoGoCall EXCEPT !.pre = molecule, !.lines0 = Lines0(molecule)]
    /\ InitBondsIdle
    /\ force_fields = [dicts |-> <<>>, instances |-> <<>>]
    /\ fflast = NoLoad
    /\ test_molecule = <<>>
    /\ id_regions = <<>>

\* GoVirtIncludes(sections).run_molecule(molecule)
GoRunMolecule ==
    /\ golast.calls < MaxPasses
    /\ \E r \in {go_run_molecule(molecule, sections)} :
          /\ molecule' = r.molecule
          /\ golast' = [golast EXCEPT !.op = "run_molecule",
                                      !.backbone = "BB",
                                      !.err = r.err,
                                      !.pre = molecule,
                                      !.calls = @ + 1,
                                      !.passes = IF r.err = "none" THEN @ + 1 ELSE @]
    /\ UNCHANGED <<sections, bondVars, ffVars, idrVars>>

Backbones == {"BB", "CA"}

\* add_virtual_sites(molecule, "vs", backbone) called on its own.
AddVirtualSites(backbone) ==
    /\ golast.calls < MaxPasses
    /\ molecule' = add_virtual_sites(molecule, "vs", backbone)
    /\ golast' = [golast EXCEPT !.op = "add_virtual_sites",
                                !.backbone = backbone,
                                !.err = "none",
                                !.pre = molecule,
                                !.calls = @ + 1]
    /\ UNCHANGED <<sections, bondVars, ffVars, idrVars>>

\* The position array of node i, the source atom of a virtual site, is
\* changed in place (translated by 0.1 nm).
Translate(i) ==
    /\ golast.moves < MaxMoves
    /\ i \in DOMAIN molecule.nodes
    /\ \E k \in DOMAIN GetList(molecule.interactions, "virtual_sitesn") :
          LET site == molecule.interactions["virtual_sitesn"][k]
          IN  site.meta.go_vs /\ site.atoms[2] = molecule.nodes[i].id
    /\ molecule' = [molecule EXCEPT !.heap[molecule.nodes[i].position] = @ + 100]
    /\ golast' = [golast EXCEPT !.op = "translate", !.err = "none",
                                !.pre = molecule, !.moves = @ + 1]
    /\ UNCHANGED <<sections, bondVars, ffVars, idrVars>>

NextGo ==
    \/ GoRunMolecule
    \/ \E backbone \in Backbones : AddVirtualSites(backbone)
    \/ \E i \in 1..(NGoResidues * 2 * (MaxPasses + 1)) : Translate(i)

SpecGo == InitGo /\ [][NextGo]_vars

\* The atoms, the new atoms and the new virtual-site interactions of the
\* last call.
OldNodes == golast.pre.nodes
NewNodes == SubSeq(molecule.nodes, Len(OldNodes) + 1, Len(molecule.nodes))
OldSites == GetList(golast.pre.interactions, "virtual_sitesn")
AllSites == GetList(molecule.interactions, "virtual_sitesn")
NewSites == SubSeq(AllSites, Len(OldSites) + 1, Len(AllSites))
Lines(mol, section) == GetList(Lines0(mol), section)
Augmented ==
    \/ golast.op = "add_virtual_sites"
    \/ golast.op = "run_molecule" /\ golast.err = "none"
BackboneAtoms == {i \in DOMAIN OldNodes : OldNodes[i].atomname = golast.backbone}

\* C12: run_molecule on a molecule without moltype, or with an empty one,
\* raises ValueError and leaves the molecule as it was: atoms, interactions
\* and metadata.
C12_NoMoltypeFails ==
    golast.op = "run_molecule" /\ golast.pre.meta.moltype \in {<<>>, <<"">>}
        => golast.err = "ValueError" /\ molecule = golast.pre

\* A failed pass on a molecule with an empty moltype and a backbone atom.
C12_Witness ==
    /\ golast.op = "run_molecule"
    /\ golast.pre.meta.moltype = <<"">>
    /\ golast.err = "ValueError"
    /\ \E i \in DOMAIN molecule.nodes : molecule.nodes[i].atomname = "BB"

\* C13: add_virtual_sites keeps the atoms, edges and interactions there were
\* and appends one atom per backbone atom and none else; each new atom has an
\* id above every earlier id, the resid, resname and chain of its source, a
\* charge group no other atom has, and one new virtual_sitesn interaction, on
\* [new id, source id].
C13_OneSitePerBackbone ==
    Augmented =>
        /\ SubSeq(molecule.nodes, 1, Len(OldNodes)) = OldNodes
        /\ molecule.edges = golast.pre.edges
        /\ \A k \in DOMAIN golast.pre.interactions :
              /\ k \in DOMAIN molecule.interactions
              /\ k # "virtual_sitesn"
                    => molecule.interactions[k] = golast.pre.interactions[k]
        /\ DOMAIN molecule.interactions \subseteq
              DOMAIN golast.pre.interactions \cup {"virtual_sitesn"}
        /\ SubSeq(AllSites, 1, Len(OldSites)) = OldSites
        /\ Len(NewNodes) = Cardinality(BackboneAtoms)
        /\ Len(NewSites) = Len(NewNodes)
        /\ \A i \in BackboneAtoms :
              Cardinality({k \in DOMAIN NewSites :
                              NewSites[k].atoms[2] = OldNodes[i].id}) = 1
        /\ \A k \in DOMAIN NewNodes :
              /\ \A i \in DOMAIN OldNodes : NewNodes[k].id > OldNodes[i].id
              /\ \A j \in DOMAIN NewNodes : j # k => NewNodes[j].id # NewNodes[k].id
              /\ NewNodes[k].charge_group # <<>>
              /\ Cardinality({j \in DOMAIN molecule.nodes :
                    molecule.nodes[j].charge_group = NewNodes[k].charge_group}) = 1
              /\ Cardinality({j \in DOMAIN NewSites :
                    NewSites[j].atoms[1] = NewNodes[k].id}) = 1
              /\ \E j \in DOMAIN NewSites, i \in BackboneAtoms :
                    /\ NewSites[j].atoms = <<NewNodes[k].id, OldNodes[i].id>>
                    /\ NewNodes[k].resid = OldNodes[i].resid
                    /\ NewNodes[k].resname = OldNodes[i].resname
                    /\ NewNodes[k].chain = OldNodes[i].chain

\* A call on two backbone atoms whose ids leave a gap and are not in order,
\* in a molecule that had a virtual_sitesn interaction.
C13_Witness ==
    /\ golast.op = "add_virtual_sites"
    /\ Cardinality(BackboneAtoms) = 2
    /\ OldNodes[1].id > OldNodes[2].id
    /\ OldSites # <<>>
    /\ Len(NewNodes) = 2

\* The molecule the last call started from has 5 backbone atoms and 3 other
\* atoms, and the call was a successful pass of GoVirtIncludes.
Scenario5and3 ==
    /\ golast.op = "run_molecule"
    /\ golast.err = "none"
    /\ Len(OldNodes) = 8
    /\ Cardinality({i \in DOMAIN OldNodes : OldNodes[i].atomname = "BB"}) = 5

OneIncludePerSection ==
    \A k \in DOMAIN sections :
        Len(Lines(molecule, sections[k])) = Len(Lines(golast.pre, sections[k])) + 1

\* C14 as stated: a pass on 5 backbone and 3 other atoms gives 8 atoms, 3
\* new virtual-site interactions and one new include line per section.
C14_Scenario8and3 ==
    Scenario5and3 =>
        /\ Len(molecule.nodes) = 8
        /\ Len(NewSites) = 3
        /\ OneIncludePerSection

\* C14 amended: a pass on 5 backbone and 3 other atoms gives 13 atoms, 5 new
\* virtual-site interactions and one new include line per section.
C14_Scenario13and5 ==
    Scenario5and3 =>
        /\ Len(molecule.nodes) = 13
        /\ Len(NewSites) = 5
        /\ OneIncludePerSection

\* The pass of the scenario, done.
C14_Witness ==
    /\ Scenario5and3
    /\ Len(NewNodes) = 5
    /\ Len(Lines(molecule, "exclusions")) = 1

\* n times the same line.
Repeat(line, n) == [k \in 1..n |-> line]

\* C15: a successful pass appends one include line to each configured
\* section and keeps the lines there were; after k passes a configured
\* section holds its first lines followed by k include lines; the sections
\* that are not configured keep their lines.
C15_IncludesAccumulate ==
    /\ golast.op = "run_molecule" /\ golast.err = "none" =>
          \A k \in DOMAIN sections :
              Lines(molecule, sections[k]) =
                  Append(Lines(golast.pre, sections[k]),
                         IncludeLine(molecule.meta.moltype[1], sections[k]))
    /\ golast.passes > 0 =>
          \A k \in DOMAIN sections :
              Lines(molecule, sections[k]) =
                  GetList(golast.lines0, sections[k])
                      \o Repeat(IncludeLine(molecule.meta.moltype[1], sections[k]),
                                golast.passes)
    /\ \A s \in (DOMAIN Lines0(molecule) \cup DOMAIN golast.lines0)
                    \ {sections[k] : k \in DOMAIN sections} :
          /\ s \in DOMAIN Lines0(molecule)
          /\ s \in DOMAIN golast.lines0
          /\ Lines0(molecule)[s] = golast.lines0[s]
    /\ golast.passes = 0 => Lines0(molecule) = golast.lines0

\* Two passes on a molecule that had a line in a configured section and a
\* line in a section that is not configured, with two sections configured.
C15_Witness ==
    /\ golast.op = "run_molecule"
    /\ golast.passes = 2
    /\ Len(sections) = 2
    /\ DOMAIN golast.lines0 = {"exclusions", "bonds"}
    /\ Len(Lines(molecule, "exclusions")) = 3

\* C16: a pass on a molecule with a type name and no atom leaves the
\* molecule as it was, metadata included.
C16_AtomlessNoOp ==
    golast.op = "run_molecule" /\ golast.err = "none" /\ OldNodes = <<>>
        => molecule = golast.pre

\* Every virtual site interaction the augmentation made.
GoSites == {AllSites[k] : k \in {j \in DOMAIN AllSites : AllSites[j].meta.go_vs}}
PositionOf(id) == molecule.heap[NodeOf(molecule, id).position]

\* C17: the position of a virtual site is the position of its source atom in
\* every state, also after the position array of the source is changed in
\* place.
C17_PositionAliased ==
    \A site \in GoSites : PositionOf(site.atoms[1]) = PositionOf(site.atoms[2])

\* The position of the source atom of a virtual site was changed in place
\* after the augmentation.
C17_Witness ==
    /\ golast.op = "translate"
    /\ \E site \in GoSites :
          /\ PositionOf(site.atoms[2]) # golast.pre.heap[NodeOf(molecule, site.atoms[2]).position]
          /\ NodeOf(molecule, site.atoms[2]).atomname = "BB"

----------------------------------------------------------------------------
(* ForceField and find_force_fields, forcefield.py:22-148 *)

\* Calls of find_force_fields in one run.
MaxLoads == 2

\* FORCE_FIELD_PARSERS.keys()
ParserExtensions == <<".rtp", ".ff">>

\* iter_force_field_files(path): the files of the directory with a known
\* extension, extension by extension (lines 141-148); nothing when path is
\* not a directory.
iter_force_field_files(entry) ==
    LET of(ext) == SelectSeq(entry.files, LAMBDA file : file.ext = ext)
        RECURSIVE chain(_)
        chain(k) == IF k > Len(ParserExtensions) THEN <<>>
                    ELSE of(ParserExtensions[k]) \o chain(k + 1)
    IN  IF entry.isdir THEN chain(1) ELSE <<>>

\* A parser of FORCE_FIELD_PARSERS run on one file: the blocks of the file
\* are stored under their names and its links are appended.
parse_file(file, ff) ==
    [ff EXCEPT
        !.blocks = [b \in DOMAIN ff.blocks \cup DOMAIN file.blocks |->
                      IF b \in DOMAIN file.blocks THEN file.blocks[b]
                      ELSE ff.blocks[b]],
        !.links = @ \o file.links]

\* ForceField.read_from (lines 48-59) over the files left: [ff, err].
RECURSIVE read_from(_, _)
read_from(ff, source_files) ==
    IF source_files = <<>> THEN [ff |-> ff, err |-> "none"]
    ELSE IF ~Head(source_files).readable
    THEN [ff |-> ff, err |-> "IOError"]                            \* open(), line 58
    ELSE read_from(parse_file(Head(source_files), ff), Tail(source_files))

\* ForceField(path) (lines 39-46): [ff, err].
ForceField(name, entry) ==
    read_from([name |-> name, blocks |-> EmptyDict, links |-> <<>>],
              iter_force_field_files(entry))

\* The loop of lines 123-137 over the names left of os.listdir(directory);
\* st is [heap, err], d the dictionary that is filled.
RECURSIVE listdir_loop(_, _, _, _)
listdir_loop(names, directory, d, st) ==
    IF names = <<>> \/ st.err # "none" THEN st
    ELSE
    LET name == Head(names)
        entry == directory[name]
        heap == st.heap
    IN  IF iter_force_field_files(entry) = <<>>                    \* 125-128
        THEN listdir_loop(Tail(names), directory, d, st)
        ELSE IF name \notin DOMAIN heap.dicts[d]                   \* 131-132
        THEN LET r == ForceField(name, entry)
             IN  IF r.err # "none" THEN [heap |-> heap, err |-> "IOError"]
                 ELSE listdir_loop(Tail(names), directory, d,
                        [heap |-> [instances |-> Append(heap.instances, r.ff),
                                   dicts |-> [heap.dicts EXCEPT ![d] =
                                       SetKey(@, name, Len(heap.instances) + 1)]],
                         err |-> "none"])
        ELSE LET ref == heap.dicts[d][name]                        \* 133-134
                 r == read_from(heap.instances[ref],
                                iter_force_field_files(entry))
                 h == [heap EXCEPT !.instances[ref] = r.ff]
             IN  IF r.err # "none" THEN [heap |-> h, err |-> "IOError"]
                 ELSE listdir_loop(Tail(names), directory, d,
                                   [heap |-> h, err |-> "none"])

\* As find_force_fields, but an empty dictionary given counts as none given.
find_force_fields_if_empty(heap, directory, names, given) ==
    LET fresh == given = 0 \/ heap.dicts[given] = EmptyDict
        h0 == IF fresh THEN [heap EXCEPT !.dicts = Append(@, EmptyDict)]
              ELSE heap
        d == IF fresh THEN Len(heap.dicts) + 1 ELSE given
        st == listdir_loop(names, directory, d, [heap |-> h0, err |-> "none"])
    IN  [heap |-> st.heap, returned |-> IF st.err = "none" THEN d ELSE 0,
         err |-> st.err]

\* find_force_fields(directory, force_fields) (lines 92-138); names is
\* os.listdir(directory), given the dictionary passed or 0 for None. The
\* result is [heap, returned, err], returned 0 when the call raises.
find_force_fields(heap, directory, names, given) ==
    LET h0 == IF given = 0 THEN [heap EXCEPT !.dicts = Append(@, EmptyDict)]
              ELSE heap                                            \* 120-121
        d == IF given = 0 THEN Len(heap.dicts) + 1 ELSE given
        st == listdir_loop(names, directory, d, [heap |-> h0, err |-> "none"])
    IN  [heap |-> st.heap, returned |-> IF st.err = "none" THEN d ELSE 0,
         err |-> st.err]

\* Files of a force field directory: [ext, blocks, links, readable]; v tells
\* the versions of a file apart.
RtpFile(v) == [ext |-> ".rtp", blocks |-> [b \in {"GLY"} |-> v], links |-> <<>>,
               readable |-> TRUE]
FfFile(v) == [ext |-> ".ff", blocks |-> [b \in {"ALA"} |-> v], links |-> <<v>>,
              readable |-> TRUE]
TxtFile == [ext |-> ".txt", blocks |-> [b \in {"TXT"} |-> 0], links |-> <<0>>,
            readable |-> TRUE]
LockedFile == [ext |-> ".rtp", blocks |-> [b \in {"GLY"} |-> 0], links |-> <<>>,
               readable |-> FALSE]

Dir(files) == [isdir |-> TRUE, files |-> files]
PlainFile == [isdir |-> FALSE, files |-> <<>>]

\* What the directory searched may hold under the names martini and charmm.
MartiniEntries ==
    {PlainFile, Dir(<<>>), Dir(<<TxtFile>>), Dir(<<RtpFile(1)>>),
     Dir(<<FfFile(2), TxtFile, RtpFile(2)>>), Dir(<<LockedFile>>)}
CharmmEntries == {Dir(<<TxtFile>>), Dir(<<RtpFile(1)>>)}

Directories ==
    {[n \in {"martini"} |-> m] : m \in MartiniEntries}
    \cup {[n \in {"charmm"} |-> c] : c \in CharmmEntries}
    \cup {[n \in {"martini", "charmm"} |-> IF n = "martini" THEN m ELSE c] :
            m \in MartiniEntries, c \in CharmmEntries}

\* The orders os.listdir may give the names in.
Listings(directory) ==
    {names \in UNION {[1..k -> DOMAIN directory] : k \in 0..2} :
        /\ Len(names) = Cardinality(DOMAIN directory)
        /\ Range(names) = DOMAIN directory}

InitFF ==
    /\ force_fields \in {[dicts |-> <<>>, instances |-> <<>>],
                         [dicts |-> <<EmptyDict>>, instances |-> <<>>]}
    /\ fflast = [NoLoad EXCEPT !.pre = force_fields]
    /\ InitBondsIdle
    /\ molecule = NoMolecule
    /\ sections = <<>>
    /\ golast = NoGoCall
    /\ test_molecule = <<>>
    /\ id_regions = <<>>

\* find_force_fields(directory) or find_force_fields(directory, force_fields)
\* with one of the dictionaries alive.
FindForceFields ==
    /\ fflast.calls < MaxLoads
    /\ \E directory \in Directories, given \in 0..Len(force_fields.dicts) :
       \E names \in Listings(directory) :
       \E r \in {find_force_fields(force_fields, directory, names, given)} :
          /\ force_fields' = r.heap
          /\ fflast' = [op |-> "find_force_fields", given |-> given,
                        returned |-> r.returned, directory |-> directory,
                        pre |-> force_fields, err |-> r.err,
                        calls |-> fflast.calls + 1]
    /\ UNCHANGED <<bondVars, goVars, idrVars>>

SpecFF == InitFF /\ [][FindForceFields]_vars

\* The names of the directory that hold at least one .rtp or .ff file.
Recognized(directory) ==
    {n \in DOMAIN directory :
        /\ directory[n].isdir
        /\ \E k \in DOMAIN directory[n].files :
              directory[n].files[k].ext \in {".rtp", ".ff"}}

IsPrefix(p, q) == Len(p) <= Len(q) /\ SubSeq(q, 1, Len(p)) = p

Loaded == fflast.op = "find_force_fields" /\ fflast.err = "none"
GivenDict == IF fflast.given = 0 THEN EmptyDict ELSE fflast.pre.dicts[fflast.given]
ReturnedDict == force_fields.dicts[fflast.returned]

----------------------------------------------------------------------------
(* AnnotateIDRs as tests/test_annotate_idrs.py:22-60 uses it *)

\* The residue ids of the nine nodes of the molecule of the test (residues
\* A, A, A, B, B, C, D, D, D).
TestResids == <<1, 1, 1, 2, 2, 3, 4, 4, 4>>

\* The regions a run may be given: at most two (first, last) pairs.
RegionLists ==
    LET pairs == (1..4) \X (1..4)
    IN  UNION {[1..k -> pairs] : k \in 0..2}

\* As in_regions, but the last residue of a region is left out.
RECURSIVE in_regions_open_end(_, _)
in_regions_open_end(resid, regions) ==
    IF regions = <<>> THEN FALSE
    ELSE \/ Head(regions)[1] <= resid /\ resid < Head(regions)[2]
         \/ in_regions_open_end(resid, Tail(regions))

\* The residue id lies in one of the regions, tried one after the other.
RECURSIVE in_regions(_, _)
in_regions(resid, regions) ==
    IF regions = <<>> THEN FALSE
    ELSE \/ Head(regions)[1] <= resid /\ resid <= Head(regions)[2]
         \/ in_regions(resid, Tail(regions))

\* AnnotateIDRs(id_regions).run_system on the nodes of the molecule: cgidr is
\* <<>> on a node that has no such attribute.
annotate_idrs(nodes, regions) ==
    [i \in DOMAIN nodes |->
        IF in_regions(nodes[i].resid, regions)
        THEN [nodes[i] EXCEPT !.cgidr = <<TRUE>>]
        ELSE nodes[i]]

InitIDR ==
    /\ test_molecule = [i \in DOMAIN TestResids |->
                           [resid |-> TestResids[i], cgidr |-> <<>>]]
    /\ id_regions = <<>>
    /\ InitBondsIdle
    /\ molecule = NoMolecule
    /\ sections = <<>>
    /\ golast = NoGoCall
    /\ force_fields = [dicts |-> <<>>, instances |-> <<>>]
    /\ fflast = NoLoad

\* AnnotateIDRs(id_regions=regions).run_system(system), once on the system.
AnnotateIDRs ==
    /\ id_regions = <<>>
    /\ \E regions \in RegionLists :
          /\ test_molecule' = annotate_idrs(test_molecule, regions)
          /\ id_regions' = <<regions>>
    /\ UNCHANGED <<bondVars, goVars, ffVars>>

SpecIDR == InitIDR /\ [][AnnotateIDRs]_vars

\* result of the test: node.get("cgidr") is true.
Marked(i) == test_molecule[i].cgidr = <<TRUE>>

----------------------------------------------------------------------------
(* The molecules of the sequential path, against the components of the     *)
(* residue graph computed on their own                                      *)

\* Pairs of atoms of one residue, or joined by an edge.
ResidueStep ==
    {ab \in Atoms \X Atoms :
        \/ residue_key_func(mol_idx, ab[1]) = residue_key_func(mol_idx, ab[2])
        \/ {ab[1], ab[2]} \in edges}

RECURSIVE TransitiveClosure(_)
TransitiveClosure(R) ==
    LET R2 == R \cup {ac \in Atoms \X Atoms :
                        \E b \in Atoms : <<ac[1], b>> \in R /\ <<b, ac[2]>> \in R}
    IN  IF R2 = R THEN R ELSE TransitiveClosure(R2)

----------------------------------------------------------------------------
(* The candidate query of the distance pass against the bond threshold      *)

\* C21: after the distance pass, for every fudge, every pair of atoms with
\* known radii that was not an edge, is not a known non-edge and lies within
\* 0.5 * (r1 + r2) * fudge is an edge: the candidate query misses no pair
\* that qualifies.
C21_NoPairMissed ==
    DistanceOnly =>
        \A p \in Pairs(Target) \ (pre_edges \cup known) :
            (\A a \in p : HasRadius(a)) =>
                \A a \in p, b \in p :
                    (a # b /\ WithinBondDistance(a, b, proc.fudge)) => p \in edges

----------------------------------------------------------------------------
(* _bonds_from_names on residues with missing atom names and positions      *)

\* "None" stands for an atom with no atomname attribute.
MaybeNames == AtomNames \cup {"None"}

\* Atoms with the atom names of the GLY block or none, evenly spaced 0.15 or
\* 0.30 nm apart, the atoms of a residue next to each other; no atom, one
\* atom or every atom is without a position.
NameSystems ==
    {[a \in Atoms |->
        IF placed[a]
        THEN Atom(NamedResidues[r[a]], name[a], "C", (a - 1) * gap)
        ELSE [Atom(NamedResidues[r[a]], name[a], "C", 0) EXCEPT !.position = <<>>]] :
        r \in {q \in [Atoms -> DOMAIN NamedResidues] :
                  \A a \in Atoms, b \in Atoms : a < b => q[a] <= q[b]},
        name \in [Atoms -> MaybeNames],
        gap \in Gaps,
        placed \in {q \in [Atoms -> BOOLEAN] :
                      Cardinality({a \in Atoms : ~q[a]}) \in {0, 1, NAtoms}}}

InitNames ==
    /\ atom \in NameSystems
    /\ molecules = MoleculesOf({})
    /\ edges = {}
    /\ mol_idx = [a \in Atoms |-> <<>>]
    /\ proc = [allow_name |-> TRUE, allow_dist |-> TRUE, fudge |-> <<1, 1>>,
               nproc |-> 0]
    /\ InitRest

NextNames == \E idxs \in SUBSET Atoms : BondsFromNames(idxs)

SpecNames == InitNames /\ [][NextNames]_vars

NamesDone == last.op = "bonds_from_names" /\ err = "none"

\* The atoms of the residue the last call worked on.
LastResidue ==
    {a \in Atoms :
        residue_key_func(mol_idx, a) = residue_key_func(mol_idx, last.target)}

\* The pairs of atoms of that residue whose atom names are joined by an edge
\* of the block of the residue.
BlockEdgePairs ==
    {p \in Pairs(LastResidue) :
        {atom[a].atomname : a \in p} \in Blocks[atom[last.target].resname].edges}

\* C22: when name matching of a residue succeeds, the graph holds the edges
\* it held before and the pairs of atoms of the residue whose atom names are
\* joined by an edge of the block, with or without positions and at any
\* distance, and nothing else; no added edge has an atom outside the residue.
C22_NameEdgesExact ==
    NamesDone =>
        /\ edges = pre_edges \cup BlockEdgePairs
        /\ \A p \in edges \ pre_edges : p \subseteq LastResidue

\* Name matching bonded two atoms of which one has no position, in a residue
\* that lacks an atom name of a block edge while an atom of the next residue
\* carries that name and stays unbonded.
C22_Witness ==
    /\ NamesDone
    /\ \E p \in edges \ pre_edges : \E a \in p : atom[a].position = <<>>
    /\ \E q \in Blocks[atom[last.target].resname].edges :
          \E name \in q :
              /\ \A a \in LastResidue : atom[a].atomname # name
              /\ \E c \in Atoms \ LastResidue :
                    /\ atom[c].atomname = name
                    /\ \A a \in LastResidue : {a, c} \notin edges

====
